---- MODULE Spec2Model ----
(***************************************************************************)
(* Model of youtube_transcript_generator: the script refiner               *)
(* (refine_script), the paragraph segmenter (split_into_paragraphs), the   *)
(* language detector (detect_language) and the script-document pipeline    *)
(* (process_video -> create_script_document -> translate_text).            *)
(*                                                                         *)
(* A Python str is modelled as a sequence of Unicode code points, so that  *)
(* the literal patterns and the code-point ranges of the source are the    *)
(* ones the model computes with.                                           *)
(***************************************************************************)
EXTENDS Integers, Sequences, FiniteSets, TLC

VARIABLES
    pc,                 \* position of the run
    text,               \* the argument of the pure function under check
    sentences,          \* refine_script: text.split('. ')
    unique_sentences,   \* refine_script: the survivors of the loop
    refined_text,       \* refine_script(text)
    refined_again,      \* refine_script(refine_script(text))
    paragraphs,         \* split_into_paragraphs(text)
    lang,               \* detect_language(text)
    success,            \* get_youtube_captions: the success flag
    captions,           \* the caption texts, in order (None is the empty list)
    translate,          \* the translate flag (process_video may switch it off)
    api_key,            \* the api_key argument ("none" or "key")
    env_key,            \* os.environ.get("GEMINI_API_KEY") ("none" or "key")
    genai,              \* whether google.generativeai could be imported
    full_text,          \* create_script_document: full_text
    refined_script,     \* create_script_document: refined_script
    source_lang,        \* create_script_document: source_lang
    translated_script,  \* create_script_document: <<>> for None, <<s>> for a str s
    translate_calls,    \* number of calls of translate_text in this run
    model_calls,        \* number of calls of generate_content in this run
    events,             \* translate_text: what it did so far, in order
    raised,             \* the exception translate_text raised ("none" if none)
    returned,           \* what translate_text returned (<<>> if nothing, <<s>>)
    doc_script,         \* the script body written (<<>> before, <<s>> after)
    doc_translated,     \* the translated section written (<<>> if there is none)
    rc                  \* process_video's return code (-1 while running)

vars == <<pc, text, sentences, unique_sentences, refined_text, refined_again,
          paragraphs, lang, success, captions, translate, api_key, env_key,
          genai, full_text, refined_script, source_lang, translated_script,
          translate_calls, model_calls, events, raised, returned, doc_script,
          doc_translated, rc>>

refineVars == <<sentences, unique_sentences, refined_text, refined_again>>
docVars == <<success, captions, translate, api_key, env_key, genai, full_text,
             refined_script, source_lang, translated_script, translate_calls,
             model_calls, events, raised, returned, doc_script, doc_translated,
             rc>>
transVars == <<events, raised, returned>>

(***************************************************************************)
(* Characters and literals of the source.                                  *)
(***************************************************************************)
Dot == 46
Space == 32
\* the characters str.strip() and the regex class \s remove (ASCII part)
Whitespace == {9, 10, 11, 12, 13, 32}
\* r'\[U+C74C U+C545\]': the noise marker, "[", U+C74C, U+C545, "]"
Marker == <<91, 51020, 50501, 93>>
\* '. ': the sentence delimiter of refine_script
DotSpace == <<Dot, Space>>

(***************************************************************************)
(* String helpers: what the str and re calls of the source compute.        *)
(***************************************************************************)
\* pat occurs in s at position i
MatchAt(s, i, pat) ==
    /\ i + Len(pat) - 1 <= Len(s)
    /\ \A j \in 1..Len(pat) : s[i + j - 1] = pat[j]

\* pat in s
Contains(s, pat) == \E i \in 1..(Len(s) - Len(pat) + 1) : MatchAt(s, i, pat)

\* x in list
InSeq(x, list) == \E i \in 1..Len(list) : list[i] = x

RECURSIVE RemoveFrom(_, _)
\* re.sub(r'\[..\]', '', s) from position i on: one left-to-right pass over
\* the non-overlapping matches; the result is not scanned again
RemoveFrom(s, i) ==
    IF i > Len(s) THEN <<>>
    ELSE IF MatchAt(s, i, Marker) THEN RemoveFrom(s, i + Len(Marker))
    ELSE <<s[i]>> \o RemoveFrom(s, i + 1)

\* re.sub(r'\[..\]', '', text)
RemoveMarker(s) == RemoveFrom(s, 1)

RECURSIVE SplitFrom(_, _, _, _)
\* str.split(sep): the piece starting at start, the scan being at i
SplitFrom(s, sep, start, i) ==
    IF i > Len(s) THEN <<SubSeq(s, start, Len(s))>>
    ELSE IF MatchAt(s, i, sep)
         THEN <<SubSeq(s, start, i - 1)>>
              \o SplitFrom(s, sep, i + Len(sep), i + Len(sep))
         ELSE SplitFrom(s, sep, start, i + 1)

\* s.split(sep): always at least one piece, empty pieces kept
Split(s, sep) == SplitFrom(s, sep, 1, 1)

RECURSIVE Join(_, _)
\* sep.join(list)
Join(list, sep) ==
    IF Len(list) = 0 THEN <<>>
    ELSE IF Len(list) = 1 THEN list[1]
    ELSE list[1] \o sep \o Join(Tail(list), sep)

\* re.sub(r'\.+', '.', s): of every run of periods only the first is kept
CollapsePeriods(s) ==
    SelectSeq([i \in 1..Len(s) |-> IF s[i] = Dot /\ i > 1 /\ s[i - 1] = Dot
                                    THEN -1 ELSE s[i]],
              LAMBDA c : c # -1)

StripRight(s) ==
    LET keep == {i \in 1..Len(s) : s[i] \notin Whitespace}
    IN  IF keep = {} THEN <<>>
        ELSE SubSeq(s, 1, CHOOSE i \in keep : \A j \in keep : i >= j)

\* s.strip()
Strip(s) ==
    LET keep == {i \in 1..Len(s) : s[i] \notin Whitespace}
    IN  IF keep = {} THEN <<>>
        ELSE SubSeq(s, CHOOSE i \in keep : \A j \in keep : i <= j,
                       CHOOSE i \in keep : \A j \in keep : i >= j)

(***************************************************************************)
(* refine_script                                                           *)
(***************************************************************************)
KeepNonEmpty(sentence, unique) == sentence # <<>>

\* the guard of the loop: `if sentence and sentence not in unique_sentences`
Keep(sentence, unique) == sentence # <<>> /\ ~InSeq(sentence, unique)

RECURSIVE UniqueLoop(_, _, _)
\* the loop `for sentence in sentences`, at index k with the survivors so far
UniqueLoop(list, k, unique) ==
    IF k > Len(list) THEN unique
    ELSE UniqueLoop(list, k + 1,
                    IF Keep(list[k], unique) THEN Append(unique, list[k])
                    ELSE unique)

\* the steps after the loop: join, collapse the periods, strip
Finish(unique) == Strip(CollapsePeriods(Join(unique, DotSpace)))

refine_script(t) ==
    Finish(UniqueLoop(Split(RemoveMarker(t), DotSpace), 1, <<>>))

(***************************************************************************)
(* split_into_paragraphs                                                   *)
(***************************************************************************)
\* the characters of the lookbehind class [.!?]
Terminators == {46, 33, 63}
\* the texts shorter than this (stripped) are not segmented
MinScriptLen == 30
\* a paragraph is closed once it holds this many sentences
MaxParagraphSentences == 5
\* the five connectives of the keyword list
Keywords == {<<44536, 47532, 44256>>, <<46384, 46972, 49436>>,
             <<44536, 47084, 45208>>, <<44536, 47000, 49436>>,
             <<44208, 47200, 51201, 51004, 47196>>}

\* the last position of the run of whitespace that starts at i
RunEnd(s, i) ==
    CHOOSE e \in i..Len(s) :
        /\ \A j \in i..e : s[j] \in Whitespace
        /\ e = Len(s) \/ s[e + 1] \notin Whitespace

RECURSIVE SentencesFrom(_, _, _)
\* re.split(r'(?<=[.!?])\s+', s): the piece starting at start, the scan at i
SentencesFrom(s, start, i) ==
    IF i > Len(s) THEN <<SubSeq(s, start, Len(s))>>
    ELSE IF i > 1 /\ s[i - 1] \in Terminators /\ s[i] \in Whitespace
         THEN <<SubSeq(s, start, i - 1)>>
              \o SentencesFrom(s, RunEnd(s, i) + 1, RunEnd(s, i) + 1)
         ELSE SentencesFrom(s, start, i + 1)

SplitSentences(s) == SentencesFrom(s, 1, 1)

\* str.lower(), on the characters the inputs are made of
Lower(s) == [i \in 1..Len(s) |-> IF s[i] \in 65..90 THEN s[i] + 32 ELSE s[i]]

\* any(keyword in sentence.lower() for keyword in [...])
HasKeyword(sentence) == \E kw \in Keywords : Contains(Lower(sentence), kw)

FlushAfterSix(current, sentence) ==
    Len(current) > MaxParagraphSentences \/ HasKeyword(sentence)

FlushOnSizeOnly(current, sentence) ==
    Len(current) >= MaxParagraphSentences

\* the condition that closes the paragraph, after the sentence was appended
FlushNow(current, sentence) ==
    Len(current) >= MaxParagraphSentences \/ HasKeyword(sentence)

RECURSIVE ParagraphLoop(_, _, _, _)
\* the loop `for sentence in sentences` at index k, and the flush after it
ParagraphLoop(list, k, pars, current) ==
    IF k > Len(list)
    THEN IF current # <<>> THEN Append(pars, Join(current, <<Space>>)) ELSE pars
    ELSE IF Strip(list[k]) = <<>> THEN ParagraphLoop(list, k + 1, pars, current)
    ELSE LET appended == Append(current, list[k])
         IN  IF FlushNow(appended, list[k])
             THEN ParagraphLoop(list, k + 1,
                                Append(pars, Join(appended, <<Space>>)), <<>>)
             ELSE ParagraphLoop(list, k + 1, pars, appended)

\* `if not text or len(text.strip()) < 30: return []`
TooShort(t) == t = <<>> \/ Len(Strip(t)) < MinScriptLen

split_into_paragraphs(t) ==
    IF TooShort(t) THEN <<>>
    ELSE ParagraphLoop(SplitSentences(RemoveMarker(t)), 1, <<>>, <<>>)

(***************************************************************************)
(* detect_language                                                         *)
(***************************************************************************)
\* range(0xAC00, 0xD7A4)
korean_chars == 44032..55203
\* range(0x3040, 0x30FF)
japanese_chars == 12352..12542
\* range(0x4E00, 0x9FFF)
chinese_chars == 19968..40958
\* 'a'..'z' and 'A'..'Z'
english_chars == (97..122) \cup (65..90)

\* sum(1 for c in text if c in chars)
CountIn(t, chars) == Cardinality({i \in 1..Len(t) : t[i] \in chars})

\* the dict `counts`, and the order in which its keys were inserted
Counts(t) ==
    [ko |-> CountIn(t, korean_chars), ja |-> CountIn(t, japanese_chars),
     zh |-> CountIn(t, chinese_chars), en |-> CountIn(t, english_chars)]
LangOrder == <<"ko", "ja", "zh", "en">>

BetterOrEqual(candidate, best) == candidate >= best

\* max() replaces its best key only by a strictly larger one
Better(candidate, best) == candidate > best

RECURSIVE MaxLoop(_, _, _)
\* max(counts, key=counts.get), at the k-th key with the best key so far
MaxLoop(counts, k, best) ==
    IF k > Len(LangOrder) THEN best
    ELSE MaxLoop(counts, k + 1,
                 IF Better(counts[LangOrder[k]], counts[best])
                 THEN LangOrder[k] ELSE best)

MaxLang(counts) == MaxLoop(counts, 2, LangOrder[1])

\* `counts[max_lang] < len(text) * 0.05`. 0.05 is the double 0.05 + 2^-56/5;
\* for count = n/20 the product n * 0.05 rounds to n/20 exactly, and for any
\* other integer count the two sides differ by at least 1/20, so the float
\* comparison is the exact one: 20 * count < n.
BelowThreshold(count, n) == 20 * count < n

detect_language(t) ==
    LET counts == Counts(t)
        max_lang == MaxLang(counts)
    IN  IF BelowThreshold(counts[max_lang], Len(t)) THEN "en" ELSE max_lang

(***************************************************************************)
(* create_script_document and translate_text                               *)
(***************************************************************************)
\* the text that replaces full_text when the captions are absent or short
Placeholder ==
    <<8251, 32, 51060, 32, 46041, 50689, 49345, 50640, 45716, 32, 52649, 48516,
      54620, 32, 51088, 47561, 51060, 32, 50630, 49845, 45768, 45796, 46, 32,
      51088, 46041, 32, 49373, 49457, 46108, 32, 51088, 47561, 51060, 32, 51228,
      54620, 51201, 51060, 44144, 45208, 32, 50630, 45716, 32, 44221, 50864,
      51077, 45768, 45796, 46>>
\* the refined script used when full_text is blank
NoCaptions == <<51088, 47561, 51060, 32, 50630, 49845, 45768, 45796, 46>>
\* a refined script is translated only if it is longer than this (stripped)
MinTranslateLen == 30
\* translate_text returns a text shorter than this (stripped) as it is
MinModelLen == 5

RECURSIVE ConcatCaptions(_)
\* `for caption in captions: full_text += caption['text'] + " "`
ConcatCaptions(list) ==
    IF Len(list) = 0 THEN <<>>
    ELSE list[1] \o <<Space>> \o ConcatCaptions(Tail(list))

\* `if not captions or len(full_text.strip()) < 30`
Insufficient(list, full) == list = <<>> \/ Len(Strip(full)) < MinScriptLen

\* full_text after the placeholder substitution
FullText(list) ==
    IF Insufficient(list, ConcatCaptions(list)) THEN Placeholder
    ELSE ConcatCaptions(list)

\* `refine_script(full_text) if full_text.strip() else "..."`
RefinedScript(full) == IF Strip(full) # <<>> THEN refine_script(full) ELSE NoCaptions

ShouldTranslateAnyLanguage(flag, detected, script) ==
    flag /\ Len(Strip(script)) > MinTranslateLen

\* `if translate and source_lang != 'ko' and len(refined_script.strip()) > 30`
ShouldTranslate(flag, detected, script) ==
    flag /\ detected # "ko" /\ Len(Strip(script)) > MinTranslateLen

ConfigureGenaiKeyOnly(installed, key, environ) ==
    (IF key = "none" THEN environ ELSE key) # "none"

\* configure_genai: the package is there, and the argument or else the
\* environment holds a key
ConfigureGenai(installed, key, environ) ==
    installed /\ (IF key = "none" THEN environ ELSE key) # "none"

\* `if translated_script:` (neither None nor the empty str)
Truthy(optional) == optional # <<>> /\ optional[1] # <<>>

(***************************************************************************)
(* Inputs: texts put together from at most a bounded number of fragments.  *)
(***************************************************************************)
RECURSIVE Flatten(_)
Flatten(pieces) ==
    IF Len(pieces) = 0 THEN <<>> ELSE pieces[1] \o Flatten(Tail(pieces))

FragmentTexts(frags, n) ==
    {Flatten(fs) : fs \in UNION {[1..k -> frags] : k \in 0..n}}

MaxRefineFrags == 5
\* the marker, its two halves (nesting), two letters, a period, a space, and
\* the delimiter
RefineFrags ==
    {Marker, <<91, 51020>>, <<50501, 93>>, <<65>>, <<66>>, <<Dot>>, <<Space>>,
     DotSpace}
\* "[..] Hello. [..] World."
HelloWorldInput ==
    Marker \o <<32, 72, 101, 108, 108, 111, 46, 32>> \o Marker
           \o <<32, 87, 111, 114, 108, 100, 46>>
RefineInputs == FragmentTexts(RefineFrags, MaxRefineFrags) \cup {HelloWorldInput}

(***************************************************************************)
(* Values of the variables a specification does not use.                   *)
(***************************************************************************)
RefineIdle ==
    /\ sentences = <<>>
    /\ unique_sentences = <<>>
    /\ refined_text = <<>>
    /\ refined_again = <<>>

DocIdle ==
    /\ success = FALSE
    /\ captions = <<>>
    /\ translate = FALSE
    /\ api_key = "none"
    /\ env_key = "none"
    /\ genai = FALSE
    /\ full_text = <<>>
    /\ refined_script = <<>>
    /\ source_lang = "none"
    /\ translated_script = <<>>
    /\ translate_calls = 0
    /\ model_calls = 0
    /\ events = <<>>
    /\ raised = "none"
    /\ returned = <<>>
    /\ doc_script = <<>>
    /\ doc_translated = <<>>
    /\ rc = -1

(***************************************************************************)
(* SpecRefine: refine_script applied to a text, then to its own result.    *)
(***************************************************************************)
InitRefine ==
    /\ pc = "start"
    /\ text \in RefineInputs
    /\ RefineIdle
    /\ paragraphs = <<>>
    /\ lang = "none"
    /\ DocIdle

\* one call refine_script(text); the locals of the call are recorded
Refine ==
    /\ pc = "start"
    /\ LET split == Split(RemoveMarker(text), DotSpace)
           unique == UniqueLoop(split, 1, <<>>)
       IN  /\ sentences' = split
           /\ unique_sentences' = unique
           /\ refined_text' = Finish(unique)
    /\ pc' = "refined"
    /\ UNCHANGED <<text, refined_again, paragraphs, lang, docVars>>

\* a second call, on the result of the first
RefineAgain ==
    /\ pc = "refined"
    /\ refined_again' = refine_script(refined_text)
    /\ pc' = "again"
    /\ UNCHANGED <<text, sentences, unique_sentences, refined_text,
                   paragraphs, lang, docVars>>

NextRefine == Refine \/ RefineAgain

SpecRefine == InitRefine /\ [][NextRefine]_vars

(***************************************************************************)
(* Properties of refine_script.                                            *)
(***************************************************************************)
NoDuplicates(list) ==
    \A i, j \in 1..Len(list) : i # j => list[i] # list[j]

FirstIndex(list, x) == CHOOSE i \in 1..Len(list) : list[i] = x /\ \A j \in 1..(i - 1) : list[j] # x

\* u holds exactly the candidates of list that satisfy E, each once, in the
\* order of their first occurrences in list
FirstOccurrences(u, list, E(_)) ==
    /\ \A i \in 1..Len(u) : InSeq(u[i], list) /\ E(u[i])
    /\ \A k \in 1..Len(list) : E(list[k]) => InSeq(list[k], u)
    /\ NoDuplicates(u)
    /\ \A i, j \in 1..Len(u) :
          i < j => FirstIndex(list, u[i]) < FirstIndex(list, u[j])

AnySentence(x) == TRUE
NonEmptySentence(x) == x # <<>>

\* C1: for every text, refine_script(text) contains no occurrence of the
\* noise marker (stated as the claim has it; a nested marker refutes it).
C1_NoMarkerInResult ==
    pc # "start" => ~Contains(refined_text, Marker)

\* C2 as stated: the survivors are exactly the distinct candidates of the
\* split, each once at its first occurrence; nothing else is dropped.
C2_SurvivorsAreAllDistinctCandidates ==
    pc # "start" => FirstOccurrences(unique_sentences, sentences, AnySentence)

\* C2 amended: the survivors are exactly the distinct NON-EMPTY candidates of
\* the split, each once, in the order of first occurrence: a candidate is
\* dropped iff it is empty or equal to an earlier kept candidate.
C2_SurvivorsAreDistinctNonEmptyCandidates ==
    pc # "start" =>
        /\ sentences = Split(RemoveMarker(text), DotSpace)
        /\ FirstOccurrences(unique_sentences, sentences, NonEmptySentence)

\* C2 witness: a run whose split held an empty candidate and a repeated
\* non-empty candidate, both dropped, and a survivor.
C2_Witness ==
    /\ pc = "refined"
    /\ InSeq(<<>>, sentences)
    /\ \E i, j \in 1..Len(sentences) :
          i < j /\ sentences[i] = sentences[j] /\ sentences[i] # <<>>
    /\ Len(unique_sentences) >= 1
    /\ Len(unique_sentences) + 2 <= Len(sentences)

\* C3: splitting refine_script(text) on ". " yields no two identical
\* sentences (stated as the claim has it: of the returned string).
C3_ResultDuplicateFree ==
    pc # "start" => NoDuplicates(Split(refined_text, DotSpace))

\* the precondition of C4: no marker in the text, no repeated sentence in its split
CleanInput(t) == ~Contains(t, Marker) /\ NoDuplicates(Split(t, DotSpace))

\* C4: on a text without marker and without repeated sentence,
\* refine_script(refine_script(text)) = refine_script(text).
C4_IdempotentOnClean ==
    (pc = "again" /\ CleanInput(text)) => refined_again = refined_text

\* "Hello. World." and "Hello.  World."
HelloWorldOneSpace == <<72, 101, 108, 108, 111, 46, 32, 87, 111, 114, 108, 100, 46>>
HelloWorldTwoSpaces == <<72, 101, 108, 108, 111, 46, 32, 32, 87, 111, 114, 108, 100, 46>>

\* C5 as stated: refine_script("[..] Hello. [..] World.") = "Hello. World."
C5_HelloWorldSingleSpace ==
    (pc # "start" /\ text = HelloWorldInput) => refined_text = HelloWorldOneSpace

\* C5 amended: the removal takes out the marker only, the spaces around it
\* stay: the result is "Hello.  World." (two spaces after the first period,
\* the leading space stripped).
C5_HelloWorldTwoSpaces ==
    (pc # "start" /\ text = HelloWorldInput) => refined_text = HelloWorldTwoSpaces

\* C5 witness: the example has been refined, from two candidates that both
\* start with the space the marker left behind.
C5_Witness ==
    /\ pc = "refined"
    /\ text = HelloWorldInput
    /\ Len(unique_sentences) = 2
    /\ \A i \in 1..2 : unique_sentences[i][1] = Space

(***************************************************************************)
(* SpecSegment: split_into_paragraphs applied to a text.                   *)
(***************************************************************************)
MaxSegmentFrags == 6
\* a plain sentence "(5 Hangul). ", a keyword sentence "(keyword 2) A? ",
\* "(keyword 1 with the marker inside)" without terminator, "(marker) "
SegmentFrags ==
    {<<44032, 45208, 45796, 46972, 47560, 46, 32>>,
     <<46384, 46972, 49436, 32, 65, 63, 32>>,
     <<44536, 47532>> \o Marker \o <<44256>>,
     Marker \o <<Space>>}
SegmentInputs == FragmentTexts(SegmentFrags, MaxSegmentFrags)

InitSegment ==
    /\ pc = "start"
    /\ text \in SegmentInputs
    /\ RefineIdle
    /\ paragraphs = <<>>
    /\ lang = "none"
    /\ DocIdle

\* one call split_into_paragraphs(text); the local `sentences` is recorded
Segment ==
    /\ pc = "start"
    /\ sentences' = (IF TooShort(text) THEN <<>>
                     ELSE SplitSentences(RemoveMarker(text)))
    /\ paragraphs' = split_into_paragraphs(text)
    /\ pc' = "segmented"
    /\ UNCHANGED <<text, unique_sentences, refined_text, refined_again, lang,
                   docVars>>

NextSegment == Segment

SpecSegment == InitSegment /\ [][NextSegment]_vars

(***************************************************************************)
(* Properties of split_into_paragraphs.                                    *)
(***************************************************************************)
\* the non-blank pieces of a list of sentences
NonBlank(list) == SelectSeq(list, LAMBDA x : Strip(x) # <<>>)

\* the sentences of a returned paragraph, read back from its text
ParagraphSentences(p) == NonBlank(SplitSentences(p))

RECURSIVE SentencesOfAll(_)
SentencesOfAll(pars) ==
    IF Len(pars) = 0 THEN <<>>
    ELSE ParagraphSentences(pars[1]) \o SentencesOfAll(Tail(pars))

\* a keyword occurs in the sentence as it is written
ContainsKeyword(sentence) == \E kw \in Keywords : Contains(sentence, kw)

\* C6: every returned paragraph is non-empty, is its 1 to 5 sentences joined
\* by one space, and the paragraphs hold the non-blank sentences of the text
\* consecutively, in order.
C6_ParagraphsOneToFiveSentences ==
    pc = "segmented" =>
        /\ \A n \in 1..Len(paragraphs) :
              /\ paragraphs[n] # <<>>
              /\ Len(ParagraphSentences(paragraphs[n])) \in 1..5
              /\ paragraphs[n] = Join(ParagraphSentences(paragraphs[n]), <<Space>>)
        /\ SentencesOfAll(paragraphs) = NonBlank(sentences)

\* C6 witness: a paragraph closed at exactly 5 sentences none of which holds
\* a keyword, and another paragraph after it.
C6_Witness ==
    /\ pc = "segmented"
    /\ \E n \in 1..(Len(paragraphs) - 1) :
          /\ Len(ParagraphSentences(paragraphs[n])) = 5
          /\ \A i \in 1..5 : ~ContainsKeyword(ParagraphSentences(paragraphs[n])[i])

\* C7: in the output a sentence containing a keyword is the last sentence of
\* its paragraph (so the next non-blank sentence starts a new paragraph), and
\* every keyword sentence of the text is in the output.
C7_KeywordSentenceEndsParagraph ==
    pc = "segmented" =>
        /\ \A n \in 1..Len(paragraphs) :
              \A i \in 1..(Len(ParagraphSentences(paragraphs[n])) - 1) :
                  ~ContainsKeyword(ParagraphSentences(paragraphs[n])[i])
        /\ \A k \in 1..Len(sentences) :
              (Strip(sentences[k]) # <<>> /\ ContainsKeyword(sentences[k])) =>
                  \E n \in 1..Len(paragraphs) :
                      LET ps == ParagraphSentences(paragraphs[n])
                      IN  ps[Len(ps)] = sentences[k]

\* C7 witness: a paragraph of fewer than 5 sentences closed by a keyword
\* sentence, with a further paragraph after it.
C7_Witness ==
    /\ pc = "segmented"
    /\ \E n \in 1..(Len(paragraphs) - 1) :
          LET ps == ParagraphSentences(paragraphs[n])
          IN  /\ Len(ps) \in 2..4
              /\ ContainsKeyword(ps[Len(ps)])

(***************************************************************************)
(* SpecDetect: detect_language applied to a text.                          *)
(***************************************************************************)
MaxDetectFrags == 4
\* one Hangul syllable, one Hiragana, one CJK ideograph, one Latin letter,
\* one space, and a run of 18 spaces (characters of no bucket)
DetectFrags ==
    {<<44032>>, <<12354>>, <<20013>>, <<97>>, <<Space>>,
     [i \in 1..18 |-> Space]}
DetectInputs == FragmentTexts(DetectFrags, MaxDetectFrags)

InitDetect ==
    /\ pc = "start"
    /\ text \in DetectInputs
    /\ RefineIdle
    /\ paragraphs = <<>>
    /\ lang = "none"
    /\ DocIdle

\* one call detect_language(text)
Detect ==
    /\ pc = "start"
    /\ lang' = detect_language(text)
    /\ pc' = "detected"
    /\ UNCHANGED <<text, refineVars, paragraphs, docVars>>

NextDetect == Detect

SpecDetect == InitDetect /\ [][NextDetect]_vars

(***************************************************************************)
(* Properties of detect_language.                                          *)
(***************************************************************************)
Langs == {"ko", "ja", "zh", "en"}
OrderOf(l) == CHOOSE k \in 1..Len(LangOrder) : LangOrder[k] = l

\* the bucket with the maximum count, the first one in the order ko, ja, zh,
\* en among those that share the maximum
Winner(t) ==
    CHOOSE w \in Langs :
        /\ \A l \in Langs : Counts(t)[l] <= Counts(t)[w]
        /\ \A l \in Langs : Counts(t)[l] = Counts(t)[w] => OrderOf(w) <= OrderOf(l)

\* C8: a text none of whose characters falls in any of the four ranges (the
\* empty text among them) is detected as en.
C8_ZeroCountsGiveEn ==
    (pc = "detected" /\ \A l \in Langs : Counts(text)[l] = 0) => lang = "en"

\* C9: the result is one of ko, ja, zh, en: en when the winning bucket (the
\* maximum count, ties to the first of ko, ja, zh, en) holds less than 5% of
\* all the characters of the text, the winning bucket otherwise.
C9_WinnerOrEnglishBelowFivePercent ==
    pc = "detected" =>
        /\ lang \in Langs
        /\ lang = (IF 20 * Counts(text)[Winner(text)] < Len(text)
                   THEN "en" ELSE Winner(text))

\* C9 witness: ja and zh tie at the maximum, above ko and en, at exactly 5%
\* of a text of 20 characters, and ja was returned.
C9_Witness ==
    /\ pc = "detected"
    /\ Counts(text).ja = Counts(text).zh
    /\ Counts(text).ja > Counts(text).ko
    /\ Counts(text).ja > Counts(text).en
    /\ Len(text) = 20 * Counts(text).ja
    /\ lang = "ja"

(***************************************************************************)
(* SpecDoc: one run of process_video, from the fetched captions to the     *)
(* written script document.                                                *)
(***************************************************************************)
MaxCaptions == 3
\* "Hello. It is nice", a Korean caption of 15 characters, and a caption
\* that consists of seven markers separated by spaces
CaptionTexts ==
    {<<72, 101, 108, 108, 111, 46, 32, 73, 116, 32, 105, 115, 32, 110, 105, 99, 101>>,
     <<50504, 45397, 54616, 49464, 50836, 32, 50668, 47084, 48516, 32, 48152,
       44049, 49845, 45768, 45796>>,
     Marker \o <<Space>> \o Marker \o <<Space>> \o Marker \o <<Space>> \o Marker
            \o <<Space>> \o Marker \o <<Space>> \o Marker \o <<Space>> \o Marker}
CaptionTracks == UNION {[1..k -> CaptionTexts] : k \in 0..MaxCaptions}
\* what response.text may be: empty, blank, or a Korean word with a newline
Responses == {<<>>, <<Space>>, <<48264, 50669, 10>>}

InitDoc ==
    /\ pc = "start"
    /\ text = <<>>
    /\ RefineIdle
    /\ paragraphs = <<>>
    /\ lang = "none"
    /\ success \in BOOLEAN
    /\ captions \in CaptionTracks
    /\ ~success => captions = <<>>
    /\ translate \in BOOLEAN
    /\ api_key \in {"none", "key"}
    /\ env_key \in {"none", "key"}
    /\ genai \in BOOLEAN
    /\ full_text = <<>>
    /\ refined_script = <<>>
    /\ source_lang = "none"
    /\ translated_script = <<>>
    /\ translate_calls = 0
    /\ model_calls = 0
    /\ events = <<>>
    /\ raised = "none"
    /\ returned = <<>>
    /\ doc_script = <<>>
    /\ doc_translated = <<>>
    /\ rc = -1

\* process_video up to the call of create_transcript_document: the captions
\* are normalised and the translate flag is settled against the API key
ProcessVideo ==
    /\ pc = "start"
    /\ captions' = (IF ~success \/ captions = <<>> THEN <<>> ELSE captions)
    /\ IF translate /\ api_key = "none"
       THEN /\ api_key' = env_key
            /\ translate' = (env_key # "none")
       ELSE UNCHANGED <<api_key, translate>>
    /\ pc' = "script"
    /\ UNCHANGED <<text, refineVars, paragraphs, lang, success, env_key, genai,
                   full_text, refined_script, source_lang, translated_script,
                   translate_calls, model_calls, transVars, doc_script,
                   doc_translated, rc>>

\* create_script_document up to the decision to translate; translate_text is
\* entered here when the decision is taken
BuildScript ==
    /\ pc = "script"
    /\ full_text' = FullText(captions)
    /\ refined_script' = RefinedScript(full_text')
    /\ source_lang' = detect_language(refined_script')
    /\ IF ShouldTranslate(translate, source_lang', refined_script')
       THEN /\ translate_calls' = translate_calls + 1
            /\ pc' = "configure"
       ELSE /\ UNCHANGED translate_calls
            /\ pc' = "write"
    /\ UNCHANGED <<text, refineVars, paragraphs, lang, success, captions,
                   translate, api_key, env_key, genai, translated_script,
                   model_calls, transVars, doc_script, doc_translated, rc>>

\* an entry of `events`: the configuration, a generate_content, the sleep
Event(kind, ok, response) == [kind |-> kind, ok |-> ok, response |-> response]

\* `return translated_text.strip()`
Returned(response) == Strip(response)

\* translate_text: configure_genai, then the short-text return. A failed
\* configuration raises TranslationError
Configure ==
    /\ pc = "configure"
    /\ IF ~ConfigureGenai(genai, api_key, env_key)
       THEN /\ events' = Append(events, Event("configure", FALSE, <<>>))
            /\ raised' = "TranslationError"
            /\ UNCHANGED returned
            /\ pc' = "returned"
       ELSE IF Len(Strip(refined_script)) < MinModelLen
       THEN /\ events' = Append(events, Event("configure", TRUE, <<>>))
            /\ returned' = <<refined_script>>
            /\ UNCHANGED raised
            /\ pc' = "returned"
       ELSE /\ events' = Append(events, Event("configure", TRUE, <<>>))
            /\ UNCHANGED <<raised, returned>>
            /\ pc' = "call1"
    /\ UNCHANGED <<text, refineVars, paragraphs, lang, success, captions,
                   translate, api_key, env_key, genai, full_text, refined_script,
                   source_lang, translated_script, translate_calls, model_calls,
                   doc_script, doc_translated, rc>>

\* translate_text: the first generate_content; it returns a response, or it
\* raises and `except Exception` takes over
ModelCall1 ==
    /\ pc = "call1"
    /\ model_calls' = model_calls + 1
    /\ \E ok \in BOOLEAN, response \in Responses :
          IF ok
          THEN /\ events' = Append(events, Event("call", TRUE, response))
               /\ returned' = <<Returned(response)>>
               /\ pc' = "returned"
          ELSE /\ events' = Append(events, Event("call", FALSE, <<>>))
               /\ UNCHANGED returned
               /\ pc' = "sleep"
    /\ UNCHANGED <<text, refineVars, paragraphs, lang, success, captions,
                   translate, api_key, env_key, genai, full_text, refined_script,
                   source_lang, translated_script, translate_calls, raised,
                   doc_script, doc_translated, rc>>

\* translate_text: time.sleep(5) in the handler of the first failure
Sleep ==
    /\ pc = "sleep"
    /\ events' = Append(events, Event("sleep", TRUE, <<>>))
    /\ pc' = "call2"
    /\ UNCHANGED <<text, refineVars, paragraphs, lang, success, captions,
                   translate, api_key, env_key, genai, full_text, refined_script,
                   source_lang, translated_script, translate_calls, model_calls,
                   raised, returned, doc_script, doc_translated, rc>>

\* translate_text: the second generate_content; a failure is raised again as
\* TranslationError
ModelCall2 ==
    /\ pc = "call2"
    /\ model_calls' = model_calls + 1
    /\ \E ok \in BOOLEAN, response \in Responses :
          IF ok
          THEN /\ events' = Append(events, Event("call", TRUE, response))
               /\ returned' = <<Returned(response)>>
               /\ UNCHANGED raised
          ELSE /\ events' = Append(events, Event("call", FALSE, <<>>))
               /\ raised' = "TranslationError"
               /\ UNCHANGED returned
    /\ pc' = "returned"
    /\ UNCHANGED <<text, refineVars, paragraphs, lang, success, captions,
                   translate, api_key, env_key, genai, full_text, refined_script,
                   source_lang, translated_script, translate_calls, doc_script,
                   doc_translated, rc>>

HandledNever(exception) == FALSE

\* `except TranslationError as e` of create_script_document
Handled(exception) == exception = "TranslationError"

\* create_script_document after translate_text: the result is assigned; a
\* TranslationError is caught and translated_script is None; any other
\* exception reaches `except Exception` of process_video, which returns 1
AfterTranslate ==
    /\ pc = "returned"
    /\ IF raised = "none"
       THEN /\ translated_script' = returned
            /\ pc' = "write"
            /\ UNCHANGED rc
       ELSE IF Handled(raised)
       THEN /\ translated_script' = <<>>
            /\ pc' = "write"
            /\ UNCHANGED rc
       ELSE /\ UNCHANGED translated_script
            /\ rc' = 1
            /\ pc' = "done"
    /\ UNCHANGED <<text, refineVars, paragraphs, lang, success, captions,
                   translate, api_key, env_key, genai, full_text, refined_script,
                   source_lang, translate_calls, model_calls, transVars,
                   doc_script, doc_translated>>

\* create_script_document: the script and, if there is one, the translated
\* section are written; process_video returns 0
WriteDocument ==
    /\ pc = "write"
    /\ doc_script' = <<refined_script>>
    /\ doc_translated' = (IF Truthy(translated_script) THEN translated_script ELSE <<>>)
    /\ rc' = 0
    /\ pc' = "done"
    /\ UNCHANGED <<text, refineVars, paragraphs, lang, success, captions,
                   translate, api_key, env_key, genai, full_text, refined_script,
                   source_lang, translated_script, translate_calls, model_calls,
                   transVars>>

NextDoc ==
    \/ ProcessVideo
    \/ BuildScript
    \/ Configure
    \/ ModelCall1
    \/ Sleep
    \/ ModelCall2
    \/ AfterTranslate
    \/ WriteDocument

SpecDoc == InitDoc /\ [][NextDoc]_vars

(***************************************************************************)
(* Properties of the script-document run.                                  *)
(***************************************************************************)
\* C10: translate_text is called at most once per document, and only with
\* the translate flag on and a language other than ko detected for the
\* refined script.
C10_TranslatorOnlyForOtherLanguage ==
    /\ translate_calls <= 1
    /\ translate_calls = 1 =>
          /\ translate
          /\ source_lang = detect_language(refined_script)
          /\ source_lang # "ko"

\* C10 witness: the translator has been called for a script detected as en,
\* and the document is written.
C10_Witness ==
    /\ pc = "done"
    /\ translate_calls = 1
    /\ source_lang = "en"

\* C11: whenever translate_text failed with TranslationError (configuration
\* failure or both model calls failed), the run still ends with the script
\* document written: the refined script as its body, no translated section,
\* and return code 0; the failure never ends the run before the document.
C11_TranslationFailureNotFatal ==
    raised = "TranslationError" =>
        /\ pc \in {"returned", "write", "done"}
        /\ pc \in {"write", "done"} => translated_script = <<>>
        /\ pc = "done" =>
              /\ rc = 0
              /\ doc_script = <<refined_script>>
              /\ doc_translated = <<>>

\* C11 witness: both model calls failed, TranslationError was raised, and
\* the run has ended.
C11_Witness ==
    /\ pc = "done"
    /\ raised = "TranslationError"
    /\ model_calls = 2

(***************************************************************************)
(* SpecTranslate: one call of translate_text on its own; the argument      *)
(* `text` of the call is held by refined_script, as in the pipeline.       *)
(***************************************************************************)
MaxTranslateFrags == 5
\* a Latin letter, a space, a Hangul syllable
TranslateFrags == {<<97>>, <<Space>>, <<44032>>}
TranslateInputs == FragmentTexts(TranslateFrags, MaxTranslateFrags)

InitTranslate ==
    /\ pc = "configure"
    /\ text = <<>>
    /\ RefineIdle
    /\ paragraphs = <<>>
    /\ lang = "none"
    /\ success = TRUE
    /\ captions = <<>>
    /\ translate = TRUE
    /\ api_key \in {"none", "key"}
    /\ env_key \in {"none", "key"}
    /\ genai \in BOOLEAN
    /\ full_text = <<>>
    /\ refined_script \in TranslateInputs
    /\ source_lang = "en"
    /\ translated_script = <<>>
    /\ translate_calls = 1
    /\ model_calls = 0
    /\ events = <<>>
    /\ raised = "none"
    /\ returned = <<>>
    /\ doc_script = <<>>
    /\ doc_translated = <<>>
    /\ rc = -1

NextTranslate ==
    \/ Configure
    \/ ModelCall1
    \/ Sleep
    \/ ModelCall2

SpecTranslate == InitTranslate /\ [][NextTranslate]_vars

(***************************************************************************)
(* Properties of translate_text.                                           *)
(***************************************************************************)
\* the generate_content calls made so far, in order
ModelCalls == SelectSeq(events, LAMBDA e : e.kind = "call")

\* the configuration fails: the package is missing, or no key is given and
\* none is in the environment
ConfigurationFails == ~genai \/ (api_key = "none" /\ env_key = "none")

\* C12: a call of translate_text makes at most two model calls, the second
\* only right after the sleep that follows the failure of the first; it
\* returns the stripped result of the first call that succeeds; it raises
\* TranslationError exactly when the configuration fails or both calls fail,
\* and a failed call leads to no other exception.
C12_SingleBoundedRetry ==
    /\ model_calls = Len(ModelCalls)
    /\ model_calls <= 2
    /\ \A i \in 1..Len(events) :
          (events[i].kind = "call" /\ \E j \in 1..(i - 1) : events[j].kind = "call") =>
              /\ i >= 3
              /\ events[i - 1].kind = "sleep"
              /\ events[i - 2].kind = "call" /\ ~events[i - 2].ok
    /\ raised \in {"none", "TranslationError"}
    /\ pc = "returned" =>
          /\ raised = "TranslationError" <=>
                \/ ConfigurationFails
                \/ (Len(ModelCalls) = 2 /\ \A k \in 1..2 : ~ModelCalls[k].ok)
          /\ raised = "TranslationError" <=> returned = <<>>
          /\ (raised = "none" /\ Len(ModelCalls) > 0) =>
                /\ ModelCalls[Len(ModelCalls)].ok
                /\ \A k \in 1..(Len(ModelCalls) - 1) : ~ModelCalls[k].ok
                /\ returned = <<Strip(ModelCalls[Len(ModelCalls)].response)>>
          /\ (raised = "none" /\ Len(ModelCalls) = 0) =>
                /\ Len(Strip(refined_script)) < 5
                /\ returned = <<refined_script>>

\* C12 witness: the first call failed, the second succeeded after the sleep,
\* and its result was returned.
C12_Witness ==
    /\ pc = "returned"
    /\ model_calls = 2
    /\ raised = "none"
    /\ returned # <<>>

(***************************************************************************)
(* Properties of the script body.                                          *)
(***************************************************************************)
\* C13: for every caption track the script body written into the script
\* document is a non-empty string (the refined captions or a placeholder).
C13_ScriptBodyNonEmpty ==
    (pc = "done" /\ rc = 0) => (doc_script # <<>> /\ doc_script[1] # <<>>)

====
